---- MODULE Spec2Model ----
(***************************************************************************)
(* NoodleML numeric core: NeuralNetwork / Neuron / Perceptron /            *)
(* ActivationFunctions, and the saved-model file of NeuralNetwork.          *)
(*                                                                         *)
(* Numbers.  A JavaScript number is modelled as a record                    *)
(*   [nan |-> FALSE, v |-> n]  (the integer n)   or   NaN.                   *)
(* Every weight, bias, input, target and learning rate of the model is an   *)
(* integer, and the modelled activations (binary, linearBounded, relu) map  *)
(* integers to integers, so the IEEE doubles of the program are exact on    *)
(* every value the model reaches.  `undefined` read from an array past its  *)
(* end becomes NaN as soon as it enters an arithmetic expression, which is  *)
(* the only place the modelled code uses such a read.                      *)
(*                                                                         *)
(* Indices.  Connection source indices keep the 0-based value of the        *)
(* source; sequences are 1-based, so inputs[index] is read At(inputs,index).*)
(***************************************************************************)
EXTENDS Integers, Sequences, FiniteSets, TLC

\* ------------------------------------------------------------------ bounds
\* operations performed on one network after its construction
MaxSteps == 2
\* largest epochs argument of train
MaxEpochs == 2
\* the sample grid of the derivative check is -GridMax .. GridMax
GridMax == 40

\* ----------------------------------------------------------------- numbers
Num(n) == [nan |-> FALSE, v |-> n]
NaN == [nan |-> TRUE, v |-> 0]

Add(a, b) == IF a.nan \/ b.nan THEN NaN ELSE Num(a.v + b.v)
Sub(a, b) == IF a.nan \/ b.nan THEN NaN ELSE Num(a.v - b.v)
Mul(a, b) == IF a.nan \/ b.nan THEN NaN ELSE Num(a.v * b.v)

\* arr[i] of the source (i 0-based) used as a number: undefined -> NaN
At(arr, i) == IF i >= 0 /\ i < Len(arr) THEN arr[i + 1] ELSE NaN

\* Math.random() * 2 - 1 : a value of [-1, 1]
RandomWeights == {Num(-1), Num(1)}

\* ------------------------------------------------------ ActivationFunctions
ActivationNames == {"binary", "linearBounded", "relu"}

\* ActivationFunctions[name].f(x)
ActF(name, x) ==
    CASE name = "binary" ->
           \* x >= 0.5 ? 1 : 0   (NaN >= 0.5 is false)
           IF ~x.nan /\ 2 * x.v >= 1 THEN Num(1) ELSE Num(0)
      [] name = "linearBounded" ->
           \* Math.max(-1, Math.min(1, x))
           IF x.nan THEN NaN
           ELSE IF x.v > 1 THEN Num(1) ELSE IF x.v < -1 THEN Num(-1) ELSE x
      [] name = "relu" ->
           \* Math.max(0, x)
           IF x.nan THEN NaN ELSE IF x.v > 0 THEN x ELSE Num(0)

\* df with a binary step whose derivative is 1
ActDFBinaryUnit(name, x) ==
    CASE name = "binary" -> Num(1)
      [] name = "linearBounded" ->
           IF ~x.nan /\ (x.v < -1 \/ x.v > 1) THEN Num(0) ELSE Num(1)
      [] name = "relu" ->
           IF ~x.nan /\ x.v > 0 THEN Num(1) ELSE Num(0)

\* ActivationFunctions[name].df(x)
ActDF(name, x) ==
    CASE name = "binary" -> Num(0)
      [] name = "linearBounded" ->
           \* (x < -1 || x > 1) ? 0 : 1   (both comparisons false on NaN)
           IF ~x.nan /\ (x.v < -1 \/ x.v > 1) THEN Num(0) ELSE Num(1)
      [] name = "relu" ->
           \* x > 0 ? 1 : 0
           IF ~x.nan /\ x.v > 0 THEN Num(1) ELSE Num(0)

\* ------------------------------------------------------------------ Neuron
\* A neuron: connections (list of [index, weight]), bias, activation name.
Conn(i, w) == [index |-> i, weight |-> w]

\* Neuron.getWeights
getWeights(n) == [k \in 1..Len(n.connections) |-> n.connections[k].weight]

\* Neuron.getBias (inherited)
getBias(n) == n.bias

\* setWeights writing the positions both arrays have before it fails
setWeightsWritingFirst(n, weights) ==
    [err |-> Len(weights) # Len(n.connections),
     neuron |-> [n EXCEPT !.connections =
                   [k \in 1..Len(n.connections) |->
                      IF k <= Len(weights)
                      THEN [n.connections[k] EXCEPT !.weight = weights[k]]
                      ELSE n.connections[k]]]]

\* Neuron.setWeights : [err, neuron]
setWeights(n, weights) ==
    IF Len(weights) # Len(n.connections)
    THEN [err |-> TRUE, neuron |-> n]
    ELSE [err |-> FALSE,
          neuron |-> [n EXCEPT !.connections =
                        [k \in 1..Len(weights) |->
                           [n.connections[k] EXCEPT !.weight = weights[k]]]]]

\* Neuron.setBias (inherited)
setBias(n, b) == [n EXCEPT !.bias = b]

\* Neuron.setActivationFunction
setActivationFunction(n, a) == [n EXCEPT !.activation = a]

\* Neuron.activate
activate(n, sum) == ActF(n.activation, sum)

\* Neuron.activationDerivative / neuron.activation.df
activationDerivative(n, sum) == ActDF(n.activation, sum)

\* the loop of Neuron.predict over connections k..end:
\* [err |-> some index >= inputs.length, sum |-> the accumulated sum]
RECURSIVE PredictLoop(_, _, _, _)
PredictLoop(conns, inputs, k, sum) ==
    IF k > Len(conns) THEN [err |-> FALSE, sum |-> sum]
    ELSE IF conns[k].index >= Len(inputs) THEN [err |-> TRUE, sum |-> sum]
    ELSE PredictLoop(conns, inputs, k + 1,
                     Add(sum, Mul(At(inputs, conns[k].index), conns[k].weight)))

\* Neuron.predict : [err, val]
NeuronPredict(n, inputs) ==
    LET r == PredictLoop(n.connections, inputs, 1, n.bias)
    IN  IF r.err THEN [err |-> TRUE, val |-> NaN]
        ELSE [err |-> FALSE, val |-> activate(n, r.sum)]

\* ----------------------------------------------------------- NeuralNetwork
\* layer.map(n => n.predict(a)) : [err, out]
LayerPredict(layer, a) ==
    LET r == [j \in 1..Len(layer) |-> NeuronPredict(layer[j], a)]
    IN  IF \E j \in 1..Len(layer) : r[j].err
        THEN [err |-> TRUE, out |-> <<>>]
        ELSE [err |-> FALSE, out |-> [j \in 1..Len(layer) |-> r[j].val]]

\* the loop of NeuralNetwork.predict from layer l on
RECURSIVE PredictFrom(_, _, _)
PredictFrom(ls, l, a) ==
    IF l > Len(ls) THEN [err |-> FALSE, out |-> a]
    ELSE LET r == LayerPredict(ls[l], a)
         IN  IF r.err THEN r ELSE PredictFrom(ls, l + 1, r.out)

\* NeuralNetwork.predict : [err, out]
NetPredict(ls, input) == PredictFrom(ls, 1, input)

\* NeuralNetwork.getLayer : { weights, biases }
getLayer(ls, index) ==
    [weights |-> [j \in 1..Len(ls[index]) |-> getWeights(ls[index][j])],
     biases  |-> [j \in 1..Len(ls[index]) |-> getBias(ls[index][j])]]

\* --- backpropagate, forward pass ---
\* neuron.getWeights().reduce((s, w, i) => s + w * prevA[i], 0) from position k
RECURSIVE WeightedSum(_, _, _, _)
WeightedSum(ws, prevA, k, s) ==
    IF k > Len(ws) THEN s
    ELSE WeightedSum(ws, prevA, k + 1, Add(s, Mul(ws[k], At(prevA, k - 1))))

\* sum of one neuron in the forward pass of backpropagate
ForwardZ(n, prevA) == Add(WeightedSum(getWeights(n), prevA, 1, Num(0)), getBias(n))

\* activations[0..l] and zs[0..l-1] after the forward pass over layers 1..l
RECURSIVE ForwardPass(_, _, _)
ForwardPass(ls, input, l) ==
    IF l = 0 THEN [activations |-> <<input>>, zs |-> <<>>]
    ELSE LET p == ForwardPass(ls, input, l - 1)
             prevA == p.activations[l]
             z == [j \in 1..Len(ls[l]) |-> ForwardZ(ls[l][j], prevA)]
             a == [j \in 1..Len(ls[l]) |-> activate(ls[l][j], z[j])]
         IN  [activations |-> Append(p.activations, a), zs |-> Append(p.zs, z)]

\* --- backpropagate, output error ---
OutputDelta(ls, fw, target) ==
    LET L == Len(ls)
    IN  [i \in 1..Len(ls[L]) |->
           Mul(Sub(fw.activations[L + 1][i], At(target, i - 1)),
               ActDF(ls[L][i].activation, fw.zs[L][i]))]

\* UpdateNeuron with the gradient step taken uphill (+ instead of -)
UpdateNeuronAscent(n, lr, d, prevA) ==
    LET newWeights == [k \in 1..Len(n.connections) |->
                         Add(getWeights(n)[k], Mul(Mul(lr, d), At(prevA, k - 1)))]
        newBias == Add(getBias(n), Mul(lr, d))
    IN  setBias(setWeights(n, newWeights).neuron, newBias)

\* --- backpropagate, update of one neuron ---
UpdateNeuron(n, lr, d, prevA) ==
    LET newWeights == [k \in 1..Len(n.connections) |->
                         Sub(getWeights(n)[k], Mul(Mul(lr, d), At(prevA, k - 1)))]
        newBias == Sub(getBias(n), Mul(lr, d))
    IN  setBias(setWeights(n, newWeights).neuron, newBias)

\* update of every neuron of a layer
UpdateLayer(layer, lr, delta, prevA) ==
    [j \in 1..Len(layer) |-> UpdateNeuron(layer[j], lr, delta[j], prevA)]

\* sum += layer[j].getWeights()[i] * delta[j]  for j from position j on
RECURSIVE DeltaSum(_, _, _, _, _)
DeltaSum(layer, delta, i, j, sum) ==
    IF j > Len(layer) THEN sum
    ELSE DeltaSum(layer, delta, i, j + 1,
                  Add(sum, Mul(At(getWeights(layer[j]), i - 1), delta[j])))

\* nextDelta of the previous layer
NextDelta(layer, prevLayer, delta, prevZ) ==
    [i \in 1..Len(prevLayer) |->
       Mul(DeltaSum(layer, delta, i, 1, Num(0)),
           ActDF(prevLayer[i].activation, prevZ[i]))]

\* the loop  for (l = layers.length - 1; l >= 0; l--)  from layer l down
RECURSIVE BackwardFrom(_, _, _, _, _)
BackwardFrom(ls, lr, fw, l, delta) ==
    IF l = 0 THEN ls
    ELSE LET updated == UpdateLayer(ls[l], lr, delta, fw.activations[l])
             ls2 == [ls EXCEPT ![l] = updated]
         IN  IF l > 1
             THEN BackwardFrom(ls2, lr, fw, l - 1,
                               NextDelta(ls2[l], ls2[l - 1], delta, fw.zs[l - 1]))
             ELSE ls2

\* NeuralNetwork.backpropagate : the layers it leaves
Backpropagate(ls, lr, input, target) ==
    LET fw == ForwardPass(ls, input, Len(ls))
    IN  BackwardFrom(ls, lr, fw, Len(ls), OutputDelta(ls, fw, target))

\* ------------------------------------------------------------ constructor
\* An element of the layerSizes argument: its typeof and twice its value
\* (so that 3/2 is representable).
Size(n) == [type |-> "number", twice |-> 2 * n]
SizeHalf(t) == [type |-> "number", twice |-> t]
SizeStr(n) == [type |-> "string", twice |-> 2 * n]
SizeArg(elems) == [isArray |-> TRUE, elems |-> elems]
NotAnArray == [isArray |-> FALSE, elems |-> <<>>]

\* the two checks at the head of the constructor
ValidLayerSizes(arg) ==
    /\ ~(~arg.isArray \/ Len(arg.elems) < 2)
    /\ ~(\E k \in 1..Len(arg.elems) :
           arg.elems[k].type # "number" \/ arg.elems[k].twice <= 0)

\* for (let i = 0; i < count; i++) : the number of iterations
LoopCount(size) == (size.twice + 1) \div 2

\* Array.from({ length: inputSize }) : ToLength truncates
ArrayLength(size) == size.twice \div 2

\* new Neuron(inputSize, learningRate, activation) : every possible outcome
NewNeurons(inputLen, activation) ==
    { [connections |-> [k \in 1..inputLen |-> Conn(k - 1, w[k])],
       bias |-> b, activation |-> activation] :
      w \in [1..inputLen -> RandomWeights], b \in RandomWeights }

\* the layers the constructor loop can build for elems[1..l]
RECURSIVE BuildLayers(_, _, _)
BuildLayers(elems, l, activation) ==
    IF l = 1 THEN {<<>>}
    ELSE { Append(pl[1], pl[2]) :
           pl \in BuildLayers(elems, l - 1, activation)
                  \X [1..LoopCount(elems[l]) ->
                        NewNeurons(ArrayLength(elems[l - 1]), activation)] }

\* ---------------------------------------------------------- persisted model
\* this.epoch: undefined until something assigns it
Undefined == [defined |-> FALSE, v |-> 0]
Epoch(k) == [defined |-> TRUE, v |-> k]

\* JSON.stringify writes NaN as null; null read back counts as 0 in sums
Null == [nan |-> FALSE, v |-> 0, null |-> TRUE]
JsonNumber(x) == IF x.nan THEN Null ELSE x

\* the catalog entries a saved name is compared with: the modelled
\* activations and sigmoid, the default of loadFromFile
Catalog == ActivationNames \cup {"sigmoid"}

\* ActivationFunctions[key].name
ActivationName(key) ==
    CASE key = "binary" -> "binary [0,1]"
      [] key = "linearBounded" -> "linear[-1,1]"
      [] key = "relu" -> "relu"
      [] key = "sigmoid" -> "sigmoid"

\* the fields of the saved object the model follows
Fields == {"epoch", "layerSizes", "weights", "biases", "activations"}

\* no file written or read yet
NoFile == [has |-> {}, epoch |-> 0, layerSizes |-> <<>>, weights |-> <<>>,
           biases |-> <<>>, activations |-> <<>>]

\* NeuralNetwork.saveToFile : the object JSON.stringify(data) writes;
\* a field whose value is undefined is left out
saveToFile(ls, sizes, ep) ==
    [has |-> IF ep.defined THEN Fields ELSE Fields \ {"epoch"},
     epoch |-> ep.v,
     layerSizes |-> sizes,
     weights |-> [l \in 1..Len(ls) |-> [j \in 1..Len(ls[l]) |->
                    [k \in 1..Len(ls[l][j].connections) |->
                       JsonNumber(getWeights(ls[l][j])[k])]]],
     biases |-> [l \in 1..Len(ls) |-> [j \in 1..Len(ls[l]) |->
                    JsonNumber(getBias(ls[l][j]))]],
     activations |-> [l \in 1..Len(ls) |-> [j \in 1..Len(ls[l]) |->
                    ActivationName(ls[l][j].activation)]]]

\* !json.field : the field is absent, or is the number 0
Falsy(json, field) ==
    field \notin json.has \/ (field = "epoch" /\ json.epoch = 0)

\* the activation loadFromFile gives neuron i of layer l (both 1-based)
LoadActivation(json, l, i) ==
    LET activationsData ==
            IF "activations" \in json.has THEN json.activations ELSE <<>>
        layerActivations ==
            IF l <= Len(activationsData) THEN activationsData[l] ELSE <<>>
    IN  IF /\ i <= Len(layerActivations)
           /\ layerActivations[i] # ""
           /\ \E key \in Catalog : ActivationName(key) = layerActivations[i]
        THEN CHOOSE key \in Catalog : ActivationName(key) = layerActivations[i]
        ELSE "sigmoid"

\* one iteration of the inner loop of loadFromFile : [err, neuron].
\* new Neuron draws random weights and a random bias; setWeights and setBias
\* replace all of them, so the model starts the neuron from zeros.
LoadNeuron(json, l, i) ==
    LET neuron == [connections |->
                     [k \in 1..ArrayLength(json.layerSizes[l]) |->
                        Conn(k - 1, Num(0))],
                   bias |-> Num(0),
                   activation |-> LoadActivation(json, l, i)]
    IN  IF l > Len(json.weights) \/ i > Len(json.weights[l])
        THEN \* json.weights[l - 1] or its entry i is undefined: TypeError
             [err |-> "type", neuron |-> neuron]
        ELSE LET r == setWeights(neuron, json.weights[l][i])
             IN  IF r.err THEN [err |-> "length", neuron |-> neuron]
                 ELSE IF l > Len(json.biases)
                 THEN [err |-> "type", neuron |-> neuron]
                 ELSE [err |-> "none",
                       neuron |-> setBias(r.neuron,
                                    IF i <= Len(json.biases[l])
                                    THEN json.biases[l][i] ELSE NaN)]

\* no network returned
NoNetwork == [layerSizes |-> <<>>, layers |-> <<>>, epoch |-> Undefined]

\* NeuralNetwork.loadFromFile once the file is parsed :
\* [err, network, warned].  The network is the fresh instance the method
\* returns (with the constructor's default learning rate, which the model
\* does not follow); warned tells whether console.warn was called.
loadFromFile(json) ==
    IF \E f \in {"layerSizes", "weights", "biases", "epoch"} : Falsy(json, f)
    THEN [err |-> "invalid", network |-> NoNetwork, warned |-> FALSE]
    ELSE IF ~ValidLayerSizes(SizeArg(json.layerSizes))
    THEN [err |-> "validation", network |-> NoNetwork, warned |-> FALSE]
    ELSE LET sizes == json.layerSizes
             r == [l \in 1..(Len(sizes) - 1) |->
                     [i \in 1..LoopCount(sizes[l + 1]) |->
                        LoadNeuron(json, l, i)]]
             places == UNION { { <<l, i>> : i \in 1..Len(r[l]) } :
                               l \in 1..(Len(sizes) - 1) }
             bad == { li \in places : r[li[1]][li[2]].err # "none" }
             first == CHOOSE li \in bad : \A o \in bad :
                        li[1] < o[1] \/ (li[1] = o[1] /\ li[2] <= o[2])
         IN  IF bad # {}
             THEN [err |-> r[first[1]][first[2]].err,
                   network |-> NoNetwork, warned |-> FALSE]
             ELSE [err |-> "none",
                   network |-> [layerSizes |-> sizes,
                                layers |-> [l \in 1..(Len(sizes) - 1) |->
                                   [i \in 1..Len(r[l]) |-> r[l][i].neuron]],
                                epoch |-> Epoch(json.epoch)],
                   warned |-> FALSE]

\* nothing loaded yet
NoLoaded == [json |-> NoFile, err |-> "none", network |-> NoNetwork,
             warned |-> FALSE]

\* --------------------------------------------------------------- Perceptron
\* A perceptron: weights (a plain array), bias, learningRate,
\* activationThreshold, disableThreshold.

\* activate comparing the sum with activationThreshold
PerceptronActivateWithThreshold(p, x) ==
    IF p.disableThreshold THEN ActF("linearBounded", x)
    ELSE IF ~x.nan /\ x.v >= p.activationThreshold.v THEN Num(1) ELSE Num(0)

\* Perceptron.activate
PerceptronActivate(p, x) ==
    IF p.disableThreshold THEN ActF("linearBounded", x) ELSE ActF("binary", x)

\* the loop of Perceptron.predict from i = k - 1 on: i < input.length,
\* this.weights[i] undefined past the end of weights
RECURSIVE PerceptronSum(_, _, _, _)
PerceptronSum(weights, input, k, sum) ==
    IF k > Len(input) THEN sum
    ELSE PerceptronSum(weights, input, k + 1,
                       Add(sum, Mul(At(weights, k - 1), input[k])))

\* predict answering 1 only for a sum of exactly 1
PerceptronPredictExact(p, input) ==
    IF PerceptronSum(p.weights, input, 1, p.bias) = Num(1) THEN Num(1) ELSE Num(0)

\* Perceptron.predict
PerceptronPredict(p, input) ==
    PerceptronActivate(p, PerceptronSum(p.weights, input, 1, p.bias))

\* train leaving the bias as it is
PerceptronTrainNoBias(p, input, target) ==
    LET error == Sub(target, PerceptronPredict(p, input))
    IN  [p EXCEPT !.weights =
           [k \in 1..Len(p.weights) |->
              IF k <= Len(input)
              THEN Add(p.weights[k], Mul(Mul(p.learningRate, error), input[k]))
              ELSE p.weights[k]]]

\* Perceptron.train : the loop runs over i < input.length, and an assignment
\* to this.weights[i] past the end of weights appends the entry
PerceptronTrain(p, input, target) ==
    LET prediction == PerceptronPredict(p, input)
        error == Sub(target, prediction)
        n == IF Len(input) > Len(p.weights) THEN Len(input) ELSE Len(p.weights)
    IN  [p EXCEPT
           !.weights = [k \in 1..n |->
                          IF k <= Len(input)
                          THEN Add(At(p.weights, k - 1),
                                   Mul(Mul(p.learningRate, error), input[k]))
                          ELSE p.weights[k]],
           !.bias = Add(@, Mul(p.learningRate, error))]

\* Perceptron.setActivationThreshold
setActivationThreshold(p, treshold) == [p EXCEPT !.activationThreshold = treshold]

\* Perceptron.setDisableThreshold
setDisableThreshold(p, disable) == [p EXCEPT !.disableThreshold = disable]

\* no perceptron constructed yet
NoPerceptron == [weights |-> <<>>, bias |-> Num(0), learningRate |-> Num(0),
                 activationThreshold |-> Num(0), disableThreshold |-> FALSE]

\* no unit constructed yet
NoUnit == [kind |-> "none", weights |-> <<>>, bias |-> Num(0),
           learningRate |-> Num(0), activationThreshold |-> Num(0),
           disableThreshold |-> FALSE, connections |-> <<>>,
           activation |-> "none"]

\* no array passed or returned yet
NoHeld == [given |-> <<>>, givenStored |-> FALSE,
           got |-> <<>>, gotStored |-> FALSE]

\* no fit call yet
NoFit == [given |-> <<>>, data |-> <<>>, epochs |-> 0, shuffle |-> FALSE,
          e |-> 0, i |-> 0, sorted |-> FALSE, history |-> FALSE,
          calls |-> <<>>]

\* ------------------------------------------------------------------- state
VARIABLES
    pc,            \* "new" | "failed" | "idle" | "train"
    layerSizes,    \* this.layerSizes (the elements of the argument)
    layers,        \* this.layers
    learningRate,  \* this.learningRate
    steps,         \* operations performed since construction
    last,          \* the last operation: name, arguments, error, result
    pre,           \* this.layers when the last operation started
    tr,            \* the running (or last) train call
    epoch,         \* this.epoch of the network
    file,          \* the object last written by saveToFile
    loaded,        \* the file last read by loadFromFile and what it returned
    perceptron,    \* a Perceptron: weights, bias, learningRate, thresholds
    ppre,          \* the perceptron when the last operation started
    fit,           \* the running (or last) fit call: the data as given and
                   \* as sorted, the loop position, and, where history is
                   \* kept, the train calls made
    unit,          \* one Perceptron or Neuron object, inherited fields included
    upre,          \* the unit when the last operation started
    held           \* the caller's arrays: the one last passed to setWeights,
                   \* the one last returned by getWeights, and whether each
                   \* is the very array the unit stores

fileVars == <<epoch, file, loaded>>
perceptronVars == <<perceptron, ppre, fit>>
unitVars == <<unit, upre, held>>
vars == <<pc, layerSizes, layers, learningRate, steps, last, pre, tr,
          fileVars, perceptronVars, unitVars>>

Op(name, input, target, n, err, out) ==
    [op |-> name, input |-> input, target |-> target, n |-> n,
     err |-> err, out |-> out]

NoTrain == [inputs |-> <<>>, targets |-> <<>>, epochs |-> 0, lr |-> Num(0),
            e |-> 0, i |-> 0, calls |-> <<>>]

\* ------------------------------------------------------------------ inputs
LayerSizesInputs ==
    { SizeArg(<<Size(2), Size(1)>>),
      SizeArg(<<Size(1), Size(1), Size(1)>>),
      SizeArg(<<Size(1), SizeHalf(3)>>),
      SizeArg(<<SizeHalf(3), Size(1)>>),
      SizeArg(<<Size(3)>>),
      SizeArg(<<>>),
      SizeArg(<<Size(1), Size(0)>>),
      SizeArg(<<Size(-1), Size(1)>>),
      SizeArg(<<Size(1), SizeStr(2)>>),
      NotAnArray }

InputVecs == { <<>>, <<Num(1)>>, <<Num(1), Num(1)>> }
TargetVecs == { <<Num(0)>>, <<Num(1), Num(0)>> }
LearningRates == { Num(1), Num(2) }
Sample1 == [x |-> <<Num(1)>>, y |-> <<Num(0)>>]
Sample2 == [x |-> <<Num(1), Num(1)>>, y |-> <<Num(1), Num(0)>>]
Datasets == { <<>>, <<Sample1, Sample2>>, <<Sample2, Sample1>> }

\* -------------------------------------------------------------------- Init
Init ==
    /\ pc = "new"
    /\ layerSizes = <<>>
    /\ layers = <<>>
    /\ learningRate = Num(0)
    /\ steps = 0
    /\ last = Op("none", <<>>, <<>>, 0, "none", <<>>)
    /\ pre = <<>>
    /\ tr = NoTrain
    /\ epoch = Undefined
    /\ file = NoFile
    /\ loaded = NoLoaded
    /\ perceptron = NoPerceptron
    /\ ppre = NoPerceptron
    /\ fit = NoFit
    /\ unit = NoUnit
    /\ upre = NoUnit
    /\ held = NoHeld

\* new NeuralNetwork(layerSizes, null, null, 1, activation), layerSizes in args
ConstructFrom(args) ==
    /\ pc = "new"
    /\ \E arg \in args, a \in ActivationNames :
         IF ~ValidLayerSizes(arg)
         THEN /\ pc' = "failed"
              /\ last' = Op("construct", arg.elems, <<>>,
                            IF arg.isArray THEN 1 ELSE 0, "validation", <<>>)
              /\ UNCHANGED <<layerSizes, layers, learningRate>>
         ELSE /\ pc' = "idle"
              /\ last' = Op("construct", arg.elems, <<>>, 1, "none", <<>>)
              /\ layerSizes' = arg.elems
              /\ learningRate' = Num(1)
              /\ layers' \in BuildLayers(arg.elems, Len(arg.elems), a)
    /\ UNCHANGED <<steps, pre, tr>>
    /\ UNCHANGED <<unitVars, fileVars, perceptronVars>>

Construct == ConstructFrom(LayerSizesInputs)

Ready == pc = "idle" /\ steps < MaxSteps

\* Predict keeping the last sum in the first neuron (hidden state)
PredictKeepingState ==
    /\ Ready
    /\ \E input \in InputVecs :
         LET r == NetPredict(layers, input)
         IN  last' = Op("predict", input, <<>>, 0,
                        IF r.err THEN "range" ELSE "none", r.out)
    /\ layers' = [layers EXCEPT ![1][1].bias = Add(@, Num(1))]
    /\ pre' = layers
    /\ steps' = steps + 1
    /\ tr' = NoTrain
    /\ UNCHANGED <<pc, layerSizes, learningRate>>
    /\ UNCHANGED <<unitVars, fileVars, perceptronVars>>

\* net.predict(input)
Predict ==
    /\ Ready
    /\ \E input \in InputVecs :
         LET r == NetPredict(layers, input)
         IN  last' = Op("predict", input, <<>>, 0,
                        IF r.err THEN "range" ELSE "none", r.out)
    /\ pre' = layers
    /\ steps' = steps + 1
    /\ tr' = NoTrain
    /\ UNCHANGED <<pc, layerSizes, layers, learningRate>>
    /\ UNCHANGED <<unitVars, fileVars, perceptronVars>>

\* net.backpropagate(input, target)
BackpropagateCall ==
    /\ Ready
    /\ \E input \in InputVecs, target \in TargetVecs :
         /\ layers' = Backpropagate(layers, learningRate, input, target)
         /\ last' = Op("backpropagate", input, target, 0, "none", <<>>)
    /\ pre' = layers
    /\ steps' = steps + 1
    /\ tr' = NoTrain
    /\ UNCHANGED <<pc, layerSizes, learningRate>>
    /\ UNCHANGED <<unitVars, fileVars, perceptronVars>>

\* net.train(inputs, targets, epochs, lr) : this.learningRate = lr
TrainStart ==
    /\ Ready
    /\ \E ds \in Datasets, epochs \in 0..MaxEpochs, lr \in LearningRates :
         /\ learningRate' = lr
         /\ tr' = [inputs |-> [k \in 1..Len(ds) |-> ds[k].x],
                   targets |-> [k \in 1..Len(ds) |-> ds[k].y],
                   epochs |-> epochs, lr |-> lr,
                   e |-> 0, i |-> 0, calls |-> <<>>]
         /\ last' = Op("train", <<>>, <<>>, epochs, "none", <<>>)
    /\ pc' = "train"
    /\ pre' = layers
    /\ steps' = steps + 1
    /\ UNCHANGED <<layerSizes, layers>>
    /\ UNCHANGED <<unitVars, fileVars, perceptronVars>>

\* both loops of train are over: e >= epochs, or no sample to iterate
TrainDone == tr.e >= tr.epochs \/ Len(tr.inputs) = 0

\* NextPosition leaving the inner loop after its first sample
NextPositionFirstSampleOnly(e, i, n) == [e |-> e + 1, i |-> 0]

\* the loop position after the call for sample i of epoch e
NextPosition(e, i, n) ==
    IF i + 1 < n THEN [e |-> e, i |-> i + 1] ELSE [e |-> e + 1, i |-> 0]

\* one iteration of the inner loop: this.backpropagate(inputs[i], targets[i])
TrainStep ==
    /\ pc = "train"
    /\ ~TrainDone
    /\ layers' = Backpropagate(layers, learningRate,
                               tr.inputs[tr.i + 1], tr.targets[tr.i + 1])
    /\ LET np == NextPosition(tr.e, tr.i, Len(tr.inputs))
       IN  tr' = [tr EXCEPT !.calls = Append(@, tr.i), !.e = np.e, !.i = np.i]
    /\ UNCHANGED <<pc, layerSizes, learningRate, steps, last, pre>>
    /\ UNCHANGED <<unitVars, fileVars, perceptronVars>>

\* train returns
TrainEnd ==
    /\ pc = "train"
    /\ TrainDone
    /\ pc' = "idle"
    /\ UNCHANGED <<layerSizes, layers, learningRate, steps, last, pre, tr>>
    /\ UNCHANGED <<unitVars, fileVars, perceptronVars>>

\* net.getLayer(index)
GetLayer ==
    /\ Ready
    /\ \E index \in 0..Len(layers) :
         IF index < Len(layers)
         THEN LET r == getLayer(layers, index + 1)
              IN  last' = Op("getLayer", <<>>, <<>>, index, "none",
                             <<r.weights, r.biases>>)
         ELSE \* this.layers[index] is undefined: layer.map throws a TypeError
              last' = Op("getLayer", <<>>, <<>>, index, "type", <<>>)
    /\ pre' = layers
    /\ steps' = steps + 1
    /\ tr' = NoTrain
    /\ UNCHANGED <<pc, layerSizes, layers, learningRate>>
    /\ UNCHANGED <<unitVars, fileVars, perceptronVars>>

\* net.setActivationFunctionForAll(activation)
SetActivationFunctionForAll ==
    /\ Ready
    /\ \E a \in ActivationNames :
         /\ layers' = [l \in 1..Len(layers) |->
                         [j \in 1..Len(layers[l]) |->
                            setActivationFunction(layers[l][j], a)]]
         /\ last' = Op("setActivationFunctionForAll", <<a>>, <<>>, 0, "none", <<>>)
    /\ pre' = layers
    /\ steps' = steps + 1
    /\ tr' = NoTrain
    /\ UNCHANGED <<pc, layerSizes, learningRate>>
    /\ UNCHANGED <<unitVars, fileVars, perceptronVars>>

\* the nbNeurons arguments of addLayer
AddLayerCounts == {0, 1, 2}

\* NeuralNetwork.addLayer : [err, layers].  The first iteration of the loop
\* calls neuron.setActivation, a method neither Neuron nor Perceptron has:
\* a TypeError leaves the method before this.layers.push.
addLayer(ls, nbNeurons) ==
    IF nbNeurons >= 1
    THEN [err |-> "type", layers |-> ls]
    ELSE [err |-> "none", layers |-> Append(ls, <<>>)]

\* net.addLayer(nbNeurons)
AddLayer ==
    /\ Ready
    /\ \E nb \in AddLayerCounts :
         LET r == addLayer(layers, nb)
         IN  /\ layers' = r.layers
             /\ last' = Op("addLayer", <<>>, <<>>, nb, r.err, <<>>)
    /\ pre' = layers
    /\ steps' = steps + 1
    /\ tr' = NoTrain
    /\ UNCHANGED <<pc, layerSizes, learningRate>>
    /\ UNCHANGED <<unitVars, fileVars, perceptronVars>>

Next ==
    \/ Construct
    \/ Predict
    \/ BackpropagateCall
    \/ TrainStart
    \/ TrainStep
    \/ TrainEnd
    \/ GetLayer
    \/ SetActivationFunctionForAll
    \/ AddLayer

Spec == Init /\ [][Next]_vars

\* ----------------------------------------------------------- sparse wiring
\* A client wires a neuron of its own into the network: the layer arrays
\* returned by getNeuronMatrix are the live this.layers arrays, and
\* new Neuron(0, learningRate, activation, connections) keeps the explicit
\* connection list as given (its bias is drawn at random).
SparseLayerSizesInputs == { SizeArg(<<Size(1), Size(2), Size(1)>>) }

SparseConnections ==
    { <<Conn(1, Num(1))>>,
      <<Conn(1, Num(1)), Conn(0, Num(-1))>> }

\* new Neuron(inputSize, learningRate, activation, connections), connections
\* not empty : every possible outcome
NewSparseNeurons(connections, activation) ==
    { [connections |-> connections, bias |-> b, activation |-> activation] :
      b \in RandomWeights }

ConstructSparse == ConstructFrom(SparseLayerSizesInputs)

\* net.getNeuronMatrix()[l][j] = new Neuron(0, lr, activation, connections)
InstallNeuron ==
    /\ Ready
    /\ \E l \in 1..Len(layers) :
         \E j \in 1..Len(layers[l]), conns \in SparseConnections :
           \E n \in NewSparseNeurons(conns, layers[l][j].activation) :
             /\ layers' = [layers EXCEPT ![l][j] = n]
             /\ last' = Op("installNeuron", <<>>, <<>>, l - 1, "none", <<>>)
    /\ pre' = layers
    /\ steps' = steps + 1
    /\ tr' = NoTrain
    /\ UNCHANGED <<pc, layerSizes, learningRate>>
    /\ UNCHANGED <<unitVars, fileVars, perceptronVars>>

NextSparse ==
    \/ ConstructSparse
    \/ InstallNeuron
    \/ Predict
    \/ BackpropagateCall

SpecSparse == Init /\ [][NextSparse]_vars

\* ------------------------------------------------- saving and loading a model
FileLayerSizesInputs ==
    { SizeArg(<<Size(2), Size(1)>>),
      SizeArg(<<Size(1), SizeHalf(3)>>) }

ConstructFile == ConstructFrom(FileLayerSizesInputs)

\* the values a collaborator gives net.epoch
EpochValues == {0, 1}

\* net.epoch = k, by the collaborator that counts the training steps
SetEpoch ==
    /\ Ready
    /\ \E k \in EpochValues :
         /\ epoch' = Epoch(k)
         /\ last' = Op("setEpoch", <<>>, <<>>, k, "none", <<>>)
    /\ pre' = layers
    /\ steps' = steps + 1
    /\ tr' = NoTrain
    /\ UNCHANGED <<pc, layerSizes, layers, learningRate, file, loaded>>
    /\ UNCHANGED <<unitVars, perceptronVars>>

\* net.saveToFile(filename)
SaveToFile ==
    /\ Ready
    /\ file' = saveToFile(layers, layerSizes, epoch)
    /\ last' = Op("save", <<>>, <<>>, 0, "none", <<>>)
    /\ pre' = layers
    /\ steps' = steps + 1
    /\ tr' = NoTrain
    /\ UNCHANGED <<pc, layerSizes, layers, learningRate, epoch, loaded>>
    /\ UNCHANGED <<unitVars, perceptronVars>>

\* the arrays given to Neuron.setWeights
WeightVecs == { <<Num(0)>>, <<Num(0), Num(1)>> }

\* net.layers[l][j].setWeights(weights); last.target holds the place <<l, j>>
SetWeights ==
    /\ Ready
    /\ \E l \in 1..Len(layers) :
         \E j \in 1..Len(layers[l]), weights \in WeightVecs :
           LET r == setWeights(layers[l][j], weights)
           IN  /\ layers' = [layers EXCEPT ![l][j] = r.neuron]
               /\ last' = Op("setWeights", weights, <<l, j>>, 0,
                             IF r.err THEN "length" ELSE "none", <<>>)
    /\ pre' = layers
    /\ steps' = steps + 1
    /\ tr' = NoTrain
    /\ UNCHANGED <<pc, layerSizes, learningRate>>
    /\ UNCHANGED <<unitVars, fileVars, perceptronVars>>

\* what the epoch of a file can have become before the file is read
EpochEdits(f) ==
    { f, [f EXCEPT !.has = @ \ {"epoch"}] }
    \cup { [f EXCEPT !.has = @ \cup {"epoch"}, !.epoch = k] : k \in EpochValues }

\* the files a saved file can have become before it is read: a field lost,
\* a weight row cut short, an activation name no catalog entry has
FileEdits(f) ==
    UNION { { g,
              [g EXCEPT !.has = @ \ {"layerSizes"}],
              [g EXCEPT !.has = @ \ {"weights"}],
              [g EXCEPT !.has = @ \ {"biases"}],
              [g EXCEPT !.has = @ \ {"activations"}],
              [g EXCEPT !.weights[1][1] = Tail(@)],
              [g EXCEPT !.activations[1][1] = "step"] } : g \in EpochEdits(f) }

\* loadFromFile assigning the layers it read to the instance it is called on
LoadFromFileIntoThis ==
    /\ Ready
    /\ file # NoFile
    /\ \E json \in FileEdits(file) :
         LET r == loadFromFile(json)
         IN  /\ loaded' = [json |-> json, err |-> r.err,
                           network |-> r.network, warned |-> r.warned]
             /\ layers' = IF r.err = "none" THEN r.network.layers ELSE layers
             /\ last' = Op("load", <<>>, <<>>, 0, r.err, <<>>)
    /\ pre' = layers
    /\ steps' = steps + 1
    /\ tr' = NoTrain
    /\ UNCHANGED <<pc, layerSizes, learningRate, epoch, file>>
    /\ UNCHANGED <<unitVars, perceptronVars>>

\* net.loadFromFile(url), the url answering with some edit of the saved file
LoadFromFile ==
    /\ Ready
    /\ file # NoFile
    /\ \E json \in FileEdits(file) :
         LET r == loadFromFile(json)
         IN  /\ loaded' = [json |-> json, err |-> r.err,
                           network |-> r.network, warned |-> r.warned]
             /\ last' = Op("load", <<>>, <<>>, 0, r.err, <<>>)
    /\ pre' = layers
    /\ steps' = steps + 1
    /\ tr' = NoTrain
    /\ UNCHANGED <<pc, layerSizes, layers, learningRate, epoch, file>>
    /\ UNCHANGED <<unitVars, perceptronVars>>

NextFile ==
    \/ ConstructFile
    \/ SetEpoch
    \/ BackpropagateCall
    \/ SetWeights
    \/ SaveToFile
    \/ LoadFromFile

SpecFile == Init /\ [][NextFile]_vars

\* --------------------------------------------------------- Perceptron calls
PerceptronSizes == {1, 2}
PerceptronInputs ==
    { <<Num(1)>>, <<Num(1), Num(1)>>, <<Num(1), Num(0), Num(1)>> }
PerceptronTargets == { Num(0), Num(1) }
ActivateInputs == { Num(-2), Num(0), Num(1), Num(2) }
ThresholdValues == { Num(0), Num(2) }
FitSample1 == [x |-> <<Num(1), Num(1)>>, y |-> Num(1)]
FitSample2 == [x |-> <<Num(0), Num(1)>>, y |-> Num(0)]
FitDatasets == { <<>>, <<FitSample1, FitSample2>> }

\* new Perceptron(inputSize, 1, disableThreshold), the arguments in sizes
\* and disables
NewPerceptronFrom(sizes, disables) ==
    /\ pc = "new"
    /\ \E inputSize \in sizes, disable \in disables,
          b \in RandomWeights :
         \E w \in [1..inputSize -> RandomWeights] :
           perceptron' = [weights |-> w, bias |-> b, learningRate |-> Num(1),
                          activationThreshold |-> Num(0),
                          disableThreshold |-> disable]
    /\ pc' = "idle"
    /\ last' = Op("perceptron.construct", <<>>, <<>>, 0, "none", <<>>)
    /\ UNCHANGED <<layerSizes, layers, learningRate, steps, pre, tr>>
    /\ UNCHANGED <<unitVars, fileVars, ppre, fit>>

NewPerceptron == NewPerceptronFrom(PerceptronSizes, BOOLEAN)

\* p.activate(x)
PerceptronActivateCall ==
    /\ Ready
    /\ \E x \in ActivateInputs :
         last' = Op("perceptron.activate", <<x>>, <<>>, 0, "none",
                    <<PerceptronActivate(perceptron, x)>>)
    /\ ppre' = perceptron
    /\ steps' = steps + 1
    /\ UNCHANGED <<pc, layerSizes, layers, learningRate, pre, tr>>
    /\ UNCHANGED <<unitVars, fileVars, perceptron, fit>>

\* p.predict(input)
PerceptronPredictCall ==
    /\ Ready
    /\ \E input \in PerceptronInputs :
         last' = Op("perceptron.predict", input, <<>>, 0, "none",
                    <<PerceptronPredict(perceptron, input)>>)
    /\ ppre' = perceptron
    /\ steps' = steps + 1
    /\ UNCHANGED <<pc, layerSizes, layers, learningRate, pre, tr>>
    /\ UNCHANGED <<unitVars, fileVars, perceptron, fit>>

\* p.train(input, target)
PerceptronTrainCall ==
    /\ Ready
    /\ \E input \in PerceptronInputs, target \in PerceptronTargets :
         /\ perceptron' = PerceptronTrain(perceptron, input, target)
         /\ last' = Op("perceptron.train", input, <<target>>, 0, "none", <<>>)
    /\ ppre' = perceptron
    /\ steps' = steps + 1
    /\ UNCHANGED <<pc, layerSizes, layers, learningRate, pre, tr>>
    /\ UNCHANGED <<unitVars, fileVars, fit>>

\* p.setActivationThreshold(treshold)
SetActivationThreshold ==
    /\ Ready
    /\ \E t \in ThresholdValues :
         /\ perceptron' = setActivationThreshold(perceptron, t)
         /\ last' = Op("setActivationThreshold", <<t>>, <<>>, 0, "none", <<>>)
    /\ ppre' = perceptron
    /\ steps' = steps + 1
    /\ UNCHANGED <<pc, layerSizes, layers, learningRate, pre, tr>>
    /\ UNCHANGED <<unitVars, fileVars, fit>>

\* p.setDisableThreshold(disable)
SetDisableThreshold ==
    /\ Ready
    /\ \E disable \in BOOLEAN :
         /\ perceptron' = setDisableThreshold(perceptron, disable)
         /\ last' = Op("setDisableThreshold", <<>>, <<>>,
                       IF disable THEN 1 ELSE 0, "none", <<>>)
    /\ ppre' = perceptron
    /\ steps' = steps + 1
    /\ UNCHANGED <<pc, layerSizes, layers, learningRate, pre, tr>>
    /\ UNCHANGED <<unitVars, fileVars, fit>>

\* p.fit(data, epochs, shuffle) is entered
FitStart ==
    /\ Ready
    /\ \E data \in FitDatasets, epochs \in 0..MaxEpochs, shuffle \in BOOLEAN :
         /\ fit' = [given |-> data, data |-> data, epochs |-> epochs,
                    shuffle |-> shuffle, e |-> 0, i |-> 0, sorted |-> FALSE,
                    history |-> TRUE, calls |-> <<>>]
         /\ last' = Op("fit", <<>>, <<>>, epochs, "none", <<>>)
    /\ pc' = "fit"
    /\ ppre' = perceptron
    /\ steps' = steps + 1
    /\ UNCHANGED <<layerSizes, layers, learningRate, pre, tr>>
    /\ UNCHANGED <<unitVars, fileVars, perceptron>>

\* the loop over e is over
FitDone == fit.e >= fit.epochs

\* the orders data.sort(() => Math.random() - 0.5) can leave data in
Shuffles(data) ==
    { [k \in 1..Len(data) |-> data[f[k]]] : f \in Permutations(1..Len(data)) }

\* if (shuffle) data = data.sort(...), at the start of a pass
FitShuffle ==
    /\ pc = "fit"
    /\ ~FitDone
    /\ fit.shuffle /\ ~fit.sorted
    /\ \E data \in Shuffles(fit.data) :
         fit' = [fit EXCEPT !.data = data, !.sorted = TRUE]
    /\ UNCHANGED <<pc, layerSizes, layers, learningRate, steps, last, pre, tr>>
    /\ UNCHANGED <<unitVars, fileVars, perceptron, ppre>>

\* the pass may iterate: its shuffle, if any, is done
FitPassReady == pc = "fit" /\ ~FitDone /\ (fit.shuffle => fit.sorted)

\* fit training on the first sample at every iteration
FitStepFirstSample ==
    /\ FitPassReady
    /\ fit.i < Len(fit.data)
    /\ perceptron' = PerceptronTrain(perceptron, fit.data[1].x, fit.data[1].y)
    /\ fit' = [fit EXCEPT !.calls = IF fit.history
                                    THEN Append(@, [e |-> fit.e, s |-> fit.data[1]])
                                    ELSE @,
                          !.i = @ + 1]
    /\ UNCHANGED <<pc, layerSizes, layers, learningRate, steps, last, pre, tr>>
    /\ UNCHANGED <<unitVars, fileVars, ppre>>

\* one iteration of for (const {x, y} of data) : this.train(x, y)
FitStep ==
    /\ FitPassReady
    /\ fit.i < Len(fit.data)
    /\ LET s == fit.data[fit.i + 1]
       IN  /\ perceptron' = PerceptronTrain(perceptron, s.x, s.y)
           /\ fit' = [fit EXCEPT !.calls = IF fit.history
                                           THEN Append(@, [e |-> fit.e, s |-> s])
                                           ELSE @,
                                 !.i = @ + 1]
    /\ UNCHANGED <<pc, layerSizes, layers, learningRate, steps, last, pre, tr>>
    /\ UNCHANGED <<unitVars, fileVars, ppre>>

\* the inner loop is over: e++
FitNextPass ==
    /\ FitPassReady
    /\ fit.i >= Len(fit.data)
    /\ fit' = [fit EXCEPT !.e = @ + 1, !.i = 0, !.sorted = FALSE]
    /\ UNCHANGED <<pc, layerSizes, layers, learningRate, steps, last, pre, tr>>
    /\ UNCHANGED <<unitVars, fileVars, perceptron, ppre>>

\* fit returns
FitEnd ==
    /\ pc = "fit"
    /\ FitDone
    /\ pc' = "idle"
    /\ UNCHANGED <<layerSizes, layers, learningRate, steps, last, pre, tr>>
    /\ UNCHANGED <<unitVars, fileVars, perceptronVars>>

NextPerceptron ==
    \/ NewPerceptron
    \/ PerceptronActivateCall
    \/ PerceptronPredictCall
    \/ PerceptronTrainCall
    \/ SetActivationThreshold
    \/ SetDisableThreshold
    \/ FitStart
    \/ FitShuffle
    \/ FitStep
    \/ FitNextPass
    \/ FitEnd

SpecPerceptron == Init /\ [][NextPerceptron]_vars

\* --------------------------------------------- learning a truth table by fit
Sample(a, b, y) == [x |-> <<Num(a), Num(b)>>, y |-> Num(y)]
AndTable == << Sample(0, 0, 0), Sample(0, 1, 0), Sample(1, 0, 0), Sample(1, 1, 1) >>
XorTable == << Sample(0, 0, 0), Sample(0, 1, 1), Sample(1, 0, 1), Sample(1, 1, 0) >>

\* new Perceptron(2, 1): two inputs, threshold enabled
NewPerceptron2 == NewPerceptronFrom({2}, {FALSE})

\* p.fit(table, epochs, shuffle) is entered, epochs >= 1; fit can be called
\* again and again, and no history of the train calls is kept
FitTableStart(table) ==
    /\ pc = "idle"
    /\ \E epochs \in 1..MaxEpochs, shuffle \in BOOLEAN :
         fit' = [given |-> table, data |-> table, epochs |-> epochs,
                 shuffle |-> shuffle, e |-> 0, i |-> 0, sorted |-> FALSE,
                 history |-> FALSE, calls |-> <<>>]
    /\ last' = Op("fit", <<>>, <<>>, 0, "none", <<>>)
    /\ pc' = "fit"
    /\ UNCHANGED <<layerSizes, layers, learningRate, steps, pre, tr>>
    /\ UNCHANGED <<unitVars, fileVars, perceptron, ppre>>

FitAnd == FitTableStart(AndTable)

FitXor == FitTableStart(XorTable)

\* p.train(x, y) for one sample of the XOR table, outside fit
TrainXor ==
    /\ pc = "idle"
    /\ \E k \in 1..Len(XorTable) :
         perceptron' = PerceptronTrain(perceptron, XorTable[k].x, XorTable[k].y)
    /\ last' = Op("perceptron.train", <<>>, <<>>, 0, "none", <<>>)
    /\ UNCHANGED <<pc, layerSizes, layers, learningRate, steps, pre, tr>>
    /\ UNCHANGED <<unitVars, fileVars, ppre, fit>>

NextAnd ==
    \/ NewPerceptron2
    \/ FitAnd
    \/ FitShuffle
    \/ FitStep
    \/ FitNextPass
    \/ FitEnd

\* training never stops for good: some step of the program is always taken
SpecAnd == Init /\ [][NextAnd]_vars /\ WF_vars(NextAnd)

NextXor ==
    \/ NewPerceptron2
    \/ FitXor
    \/ TrainXor
    \/ FitShuffle
    \/ FitStep
    \/ FitNextPass
    \/ FitEnd

SpecXor == Init /\ [][NextXor]_vars

\* ------------------------------------------- derivatives of the activations
\* the catalog entries that are piecewise linear: on an integer x their f and
\* df are exact in hundredths
PiecewiseLinear == {"linearBounded", "relu", "leakyRelu"}

\* 100 * ActivationFunctions[name].f(x)
FHundredths(name, x) ==
    IF name = "leakyRelu"
    THEN \* x > 0 ? x : 0.01 * x
         IF x > 0 THEN 100 * x ELSE x
    ELSE 100 * ActF(name, Num(x)).v

\* df answering 1 everywhere
DFHundredthsUnit(name, x) == 100

\* 100 * ActivationFunctions[name].df(x)
DFHundredths(name, x) ==
    IF name = "leakyRelu"
    THEN \* x > 0 ? 1 : 0.01
         IF x > 0 THEN 100 ELSE 1
    ELSE 100 * ActDF(name, Num(x)).v

\* f(x + h), f(x - h) and df(x) of one entry at one grid point, with h = 1:
\* last.target holds the entry, last.input the point, last.n the step h
EvaluateDerivative ==
    /\ \E name \in PiecewiseLinear, x \in (0 - GridMax)..GridMax :
         last' = Op("derivative", <<x>>, <<name>>, 1, "none",
                    << FHundredths(name, x + 1), FHundredths(name, x - 1),
                       DFHundredths(name, x) >>)
    /\ UNCHANGED <<pc, layerSizes, layers, learningRate, steps, pre, tr>>
    /\ UNCHANGED <<unitVars, fileVars, perceptronVars>>

NextActivation == EvaluateDerivative

SpecActivation == Init /\ [][NextActivation]_vars

\* ------------------------------------------- one Perceptron or Neuron object
\* conn.weight of a connection given without a weight: undefined, which is
\* NaN in arithmetic
NoWeight == [nan |-> TRUE, v |-> 0, undefined |-> TRUE]

\* new Perceptron(inputSize, learningRate, disableThreshold) : every outcome
NewPerceptrons(inputSize, lr, disable) ==
    { [kind |-> "Perceptron", weights |-> w, bias |-> b,
       learningRate |-> lr, activationThreshold |-> Num(0),
       disableThreshold |-> disable, connections |-> <<>>,
       activation |-> "none"] :
      w \in [1..inputSize -> RandomWeights], b \in RandomWeights }

\* new Neuron(inputSize, learningRate, activation, connections) : every
\* outcome.  The constructor maps the given connections to their weights or
\* draws inputSize weights, calls super(weights.length, learningRate), which
\* draws this.weights and this.bias anew, and keeps the given connection list
\* as it is when it is not empty.
NewNeuronObjects(inputSize, lr, activation, connections) ==
    LET dense == Len(connections) = 0
        n == IF dense THEN inputSize ELSE Len(connections)
        ws == IF dense THEN [1..inputSize -> RandomWeights]
              ELSE { [k \in 1..n |-> connections[k].weight] }
    IN  { [p EXCEPT !.kind = "Neuron",
                    !.connections =
                        IF dense THEN [k \in 1..n |-> Conn(k - 1, w[k])]
                        ELSE connections,
                    !.activation = activation] :
          w \in ws, p \in NewPerceptrons(n, lr, FALSE) }

\* this.predict(inputs), Neuron.predict overriding Perceptron.predict :
\* [err, val]
UnitPredict(u, inputs) ==
    IF u.kind = "Neuron" THEN NeuronPredict(u, inputs)
    ELSE [err |-> FALSE, val |-> PerceptronPredict(u, inputs)]

\* train of a Neuron writing the connection weights
InheritedTrainOnConnections(n, input, target) ==
    LET r == NeuronPredict(n, input)
        error == Sub(target, r.val)
    IN  IF r.err THEN [err |-> TRUE, unit |-> n]
        ELSE [err |-> FALSE,
              unit |-> [n EXCEPT
                 !.connections =
                     [k \in 1..Len(n.connections) |->
                        IF k <= Len(input)
                        THEN [n.connections[k] EXCEPT !.weight =
                                Add(@, Mul(Mul(n.learningRate, error),
                                           input[k]))]
                        ELSE n.connections[k]],
                 !.bias = Add(@, Mul(n.learningRate, error))]]

\* Perceptron.train called on a Neuron (Neuron does not override it) :
\* [err, unit].  this.predict is Neuron.predict, which may throw before
\* anything is written; the loop writes this.weights, the array of the
\* Perceptron part, and this.bias.
InheritedTrain(n, input, target) ==
    LET r == NeuronPredict(n, input)
        error == Sub(target, r.val)
        len == IF Len(input) > Len(n.weights) THEN Len(input)
               ELSE Len(n.weights)
    IN  IF r.err THEN [err |-> TRUE, unit |-> n]
        ELSE [err |-> FALSE,
              unit |-> [n EXCEPT
                 !.weights = [k \in 1..len |->
                                IF k <= Len(input)
                                THEN Add(At(n.weights, k - 1),
                                         Mul(Mul(n.learningRate, error),
                                             input[k]))
                                ELSE n.weights[k]],
                 !.bias = Add(@, Mul(n.learningRate, error))]]

\* this.train(input, target) by the class of the object : [err, unit]
UnitTrain(u, input, target) ==
    IF u.kind = "Neuron" THEN InheritedTrain(u, input, target)
    ELSE [err |-> FALSE, unit |-> PerceptronTrain(u, input, target)]

\* reset drawing the bias only
PerceptronResetBiasOnly(p) ==
    { [p EXCEPT !.bias = b] : b \in RandomWeights }

\* Perceptron.reset (Neuron inherits it) : every outcome
PerceptronReset(p) ==
    { [p EXCEPT !.weights = w, !.bias = b] :
      w \in [1..Len(p.weights) -> RandomWeights], b \in RandomWeights }

\* addConnection replacing the connection that has the same source index
addConnectionReplacing(n, index, weight) ==
    IF \E k \in 1..Len(n.connections) : n.connections[k].index = index
    THEN { [n EXCEPT !.connections =
              [k \in 1..Len(n.connections) |->
                 IF n.connections[k].index = index
                 THEN Conn(index, w) ELSE n.connections[k]]] :
           w \in IF weight = Null THEN RandomWeights ELSE {weight} }
    ELSE { [n EXCEPT !.connections = Append(@, Conn(index, w))] :
           w \in IF weight = Null THEN RandomWeights ELSE {weight} }

\* Neuron.addConnection(index, weight = null) : every outcome
addConnection(n, index, weight) ==
    { [n EXCEPT !.connections = Append(@, Conn(index, w))] :
      w \in IF weight = Null THEN RandomWeights ELSE {weight} }

\* setWeights keeping the array it is given
PerceptronSetWeightsKeeping(p, weights) ==
    [unit |-> [p EXCEPT !.weights = weights], stored |-> TRUE]

\* Perceptron.setWeights : this.weights = [...weights], a new array.
\* stored tells whether this.weights is the argument itself.
PerceptronSetWeights(p, weights) ==
    [unit |-> [p EXCEPT !.weights = weights], stored |-> FALSE]

\* Perceptron.getWeights : [...this.weights], a new array.
\* stored tells whether the result is this.weights itself.
PerceptronGetWeights(p) == [val |-> p.weights, stored |-> FALSE]

\* this.setWeights(weights) by the class : [err, unit, stored].  Neuron
\* writes the numbers into its connections and keeps no array.
UnitSetWeights(u, weights) ==
    IF u.kind = "Neuron"
    THEN LET r == setWeights(u, weights)
         IN  [err |-> r.err, unit |-> r.neuron, stored |-> FALSE]
    ELSE LET r == PerceptronSetWeights(u, weights)
         IN  [err |-> FALSE, unit |-> r.unit, stored |-> r.stored]

\* this.getWeights() by the class : [val, stored].  Neuron maps its
\* connections to a new array.
UnitGetWeights(u) ==
    IF u.kind = "Neuron" THEN [val |-> getWeights(u), stored |-> FALSE]
    ELSE PerceptronGetWeights(u)

\* --- calls ---
UnitSizes == {1, 2}
UnitConnections ==
    { <<>>,
      <<Conn(1, Num(1))>>,
      <<Conn(1, NoWeight)>>,
      <<Conn(1, Num(1)), Conn(0, Num(-1))>> }
UnitInputs == { <<Num(1)>>, <<Num(1), Num(0)>>, <<Num(1), Num(1)>> }
UnitTargets == { Num(1) }
UnitWeightVecs == { <<Num(0)>>, <<Num(0), Num(1)>> }
ConnectionWeights == { Null, Num(1) }
ScribbledValue == Num(5)

\* new Perceptron(inputSize, 1, disableThreshold)
NewPerceptronUnitFrom(sizes) ==
    /\ pc = "new"
    /\ \E inputSize \in sizes, disable \in BOOLEAN :
         unit' \in NewPerceptrons(inputSize, Num(1), disable)
    /\ pc' = "idle"
    /\ last' = Op("unit.construct", <<>>, <<>>, 0, "none", <<>>)
    /\ UNCHANGED <<layerSizes, layers, learningRate, steps, pre, tr>>
    /\ UNCHANGED <<fileVars, perceptronVars, upre, held>>

NewPerceptronUnit == NewPerceptronUnitFrom(UnitSizes)

\* new Neuron(inputSize, 1, ActivationFunctions.relu, connections):
\* last.n holds inputSize, last.input the connections given
NewNeuronUnitFrom(sizes, lists) ==
    /\ pc = "new"
    /\ \E inputSize \in sizes, connections \in lists :
         /\ unit' \in NewNeuronObjects(inputSize, Num(1), "relu", connections)
         /\ last' = Op("unit.construct", connections, <<>>, inputSize,
                       "none", <<>>)
    /\ pc' = "idle"
    /\ UNCHANGED <<layerSizes, layers, learningRate, steps, pre, tr>>
    /\ UNCHANGED <<fileVars, perceptronVars, upre, held>>

NewNeuronUnit == NewNeuronUnitFrom(UnitSizes, UnitConnections)

\* unit.predict(inputs)
UnitPredictCall ==
    /\ Ready
    /\ \E inputs \in UnitInputs :
         LET r == UnitPredict(unit, inputs)
         IN  last' = Op("unit.predict", inputs, <<>>, 0,
                        IF r.err THEN "index" ELSE "none", <<r.val>>)
    /\ upre' = unit
    /\ steps' = steps + 1
    /\ UNCHANGED <<pc, layerSizes, layers, learningRate, pre, tr>>
    /\ UNCHANGED <<fileVars, perceptronVars, unit, held>>

\* unit.train(input, target)
UnitTrainCall ==
    /\ Ready
    /\ \E input \in UnitInputs, target \in UnitTargets :
         LET r == UnitTrain(unit, input, target)
         IN  /\ unit' = r.unit
             /\ last' = Op("unit.train", input, <<target>>, 0,
                           IF r.err THEN "index" ELSE "none", <<>>)
    /\ upre' = unit
    /\ steps' = steps + 1
    /\ UNCHANGED <<pc, layerSizes, layers, learningRate, pre, tr>>
    /\ UNCHANGED <<fileVars, perceptronVars, held>>

\* unit.reset()
UnitResetCall ==
    /\ Ready
    /\ unit' \in PerceptronReset(unit)
    /\ last' = Op("unit.reset", <<>>, <<>>, 0, "none", <<>>)
    /\ upre' = unit
    /\ steps' = steps + 1
    /\ UNCHANGED <<pc, layerSizes, layers, learningRate, pre, tr>>
    /\ UNCHANGED <<fileVars, perceptronVars, held>>

\* unit.setActivationThreshold(treshold)
UnitSetActivationThreshold ==
    /\ Ready
    /\ unit.kind = "Perceptron"
    /\ unit' = setActivationThreshold(unit, Num(2))
    /\ last' = Op("unit.setActivationThreshold", <<Num(2)>>, <<>>, 0,
                  "none", <<>>)
    /\ upre' = unit
    /\ steps' = steps + 1
    /\ UNCHANGED <<pc, layerSizes, layers, learningRate, pre, tr>>
    /\ UNCHANGED <<fileVars, perceptronVars, held>>

\* neuron.addConnection(index, weight): last.n holds index, last.input the
\* weight given (Null when the argument is left out)
AddConnection ==
    /\ Ready
    /\ unit.kind = "Neuron"
    /\ \E index \in 0..1, weight \in ConnectionWeights :
         /\ unit' \in addConnection(unit, index, weight)
         /\ last' = Op("unit.addConnection", <<weight>>, <<>>, index,
                       "none", <<>>)
    /\ upre' = unit
    /\ steps' = steps + 1
    /\ UNCHANGED <<pc, layerSizes, layers, learningRate, pre, tr>>
    /\ UNCHANGED <<fileVars, perceptronVars, held>>

NextUnit ==
    \/ NewPerceptronUnit
    \/ NewNeuronUnit
    \/ UnitPredictCall
    \/ UnitTrainCall
    \/ UnitResetCall
    \/ UnitSetActivationThreshold
    \/ AddConnection

SpecUnit == Init /\ [][NextUnit]_vars

\* --- the caller's arrays ---
NewPerceptronOfTwo == NewPerceptronUnitFrom({2})
NewDenseNeuronOfTwo == NewNeuronUnitFrom({2}, {<<>>})

\* unit.setWeights(w) with an array w of the caller, which the caller keeps
UnitSetWeightsCall ==
    /\ Ready
    /\ \E w \in UnitWeightVecs :
         LET r == UnitSetWeights(unit, w)
         IN  /\ unit' = r.unit
             /\ held' = [given |-> w, givenStored |-> r.stored,
                         got |-> held.got,
                         gotStored |-> held.gotStored /\ r.err]
             /\ last' = Op("unit.setWeights", w, <<>>, 0,
                           IF r.err THEN "length" ELSE "none", <<>>)
    /\ upre' = unit
    /\ steps' = steps + 1
    /\ UNCHANGED <<pc, layerSizes, layers, learningRate, pre, tr>>
    /\ UNCHANGED <<fileVars, perceptronVars>>

\* unit.getWeights(), the caller keeping the array returned
UnitGetWeightsCall ==
    /\ Ready
    /\ LET r == UnitGetWeights(unit)
       IN  /\ held' = [held EXCEPT !.got = r.val, !.gotStored = r.stored]
           /\ last' = Op("unit.getWeights", <<>>, <<>>, 0, "none", r.val)
    /\ upre' = unit
    /\ steps' = steps + 1
    /\ UNCHANGED <<pc, layerSizes, layers, learningRate, pre, tr>>
    /\ UNCHANGED <<fileVars, perceptronVars, unit>>

\* the caller writes arr[i] = v into an array it holds (last.target names
\* it, last.n is i + 1): the write reaches this.weights exactly when the
\* array is the one the unit stores, and then every other name of that array
ScribbleOnArray ==
    /\ Ready
    /\ \E which \in {"given", "got"} :
         LET arr == IF which = "given" THEN held.given ELSE held.got
             stored == IF which = "given" THEN held.givenStored
                       ELSE held.gotStored
         IN  \E i \in 1..Len(arr) :
               /\ unit' = IF stored
                          THEN [unit EXCEPT !.weights[i] = ScribbledValue]
                          ELSE unit
               /\ held' =
                    [given |-> IF which = "given" \/ (stored /\ held.givenStored)
                               THEN [held.given EXCEPT ![i] = ScribbledValue]
                               ELSE held.given,
                     givenStored |-> held.givenStored,
                     got |-> IF which = "got" \/ (stored /\ held.gotStored)
                             THEN [held.got EXCEPT ![i] = ScribbledValue]
                             ELSE held.got,
                     gotStored |-> held.gotStored]
               /\ last' = Op("scribble", <<ScribbledValue>>, which, i,
                             "none", <<>>)
    /\ upre' = unit
    /\ steps' = steps + 1
    /\ UNCHANGED <<pc, layerSizes, layers, learningRate, pre, tr>>
    /\ UNCHANGED <<fileVars, perceptronVars>>

NextWeights ==
    \/ NewPerceptronOfTwo
    \/ NewDenseNeuronOfTwo
    \/ UnitSetWeightsCall
    \/ UnitGetWeightsCall
    \/ ScribbleOnArray
    \/ UnitPredictCall

SpecWeights == Init /\ [][NextWeights]_vars

\* ================================================================== claims
DirectBackpropagate == pc = "idle" /\ last.op = "backpropagate"

\* ---------------------------------------------------------------------- C1
C1_Forward == ForwardPass(pre, last.input, Len(pre))

\* delta[j] = (a_final[j] - target[j]) * df(z_final[j])
C1_Delta(j) ==
    LET L == Len(pre)
    IN  Mul(Sub(C1_Forward.activations[L + 1][j], At(last.target, j - 1)),
            ActDF(pre[L][j].activation, C1_Forward.zs[L][j]))

\* C1: after backpropagate(input, target) every neuron j of the output layer
\* holds, for every weight k, weight - learningRate * delta[j] * prevActivation[k]
\* and the bias bias - learningRate * delta[j], with
\* delta[j] = (a_final[j] - target[j]) * df(z_final[j]) and prevActivation the
\* previous layer's activations (the raw input when there is no hidden layer).
C1_OutputLayerUpdate ==
    DirectBackpropagate =>
      LET L == Len(pre)
          prevA == C1_Forward.activations[L]
      IN  /\ Len(layers) = L
          /\ Len(layers[L]) = Len(pre[L])
          /\ \A j \in 1..Len(pre[L]) :
               /\ Len(layers[L][j].connections) = Len(pre[L][j].connections)
               /\ \A k \in 1..Len(pre[L][j].connections) :
                    layers[L][j].connections[k].weight =
                      Sub(pre[L][j].connections[k].weight,
                          Mul(learningRate, Mul(C1_Delta(j), At(prevA, k - 1))))
               /\ layers[L][j].bias =
                    Sub(pre[L][j].bias, Mul(learningRate, C1_Delta(j)))

\* a backpropagate call on a network with a hidden layer that moved an output
\* weight and the output bias to new (non-NaN) values
C1_Witness ==
    /\ DirectBackpropagate
    /\ Len(pre) = 2
    /\ \E j \in 1..Len(pre[2]) :
         /\ ~layers[2][j].bias.nan
         /\ layers[2][j].bias # pre[2][j].bias
         /\ \E k \in 1..Len(pre[2][j].connections) :
              /\ ~layers[2][j].connections[k].weight.nan
              /\ layers[2][j].connections[k].weight # pre[2][j].connections[k].weight

\* ----------------------------------------------------- C2, C3 : reference
\* weight[j -> i]: the weight a neuron holds for source i (0-based), summed
\* over the connections wired to that source (0 when there is none)
RECURSIVE WeightFromSource(_, _, _)
WeightFromSource(conns, i, k) ==
    IF k > Len(conns) THEN Num(0)
    ELSE Add(IF conns[k].index = i THEN conns[k].weight ELSE Num(0),
             WeightFromSource(conns, i, k + 1))

\* sum over neurons j.. of the layer of weight[j -> i] * delta[j]
RECURSIVE RefDeltaSum(_, _, _, _)
RefDeltaSum(layer, delta, i, j) ==
    IF j > Len(layer) THEN Num(0)
    ELSE Add(Mul(WeightFromSource(layer[j].connections, i, 1), delta[j]),
             RefDeltaSum(layer, delta, i, j + 1))

\* nextDelta[i] = (sum_j weight[j -> i] * delta[j]) * df(prevZ[i])
RefNextDelta(layer, prevLayer, delta, prevZ) ==
    [i \in 1..Len(prevLayer) |->
       Mul(RefDeltaSum(layer, delta, i - 1, 1),
           ActDF(prevLayer[i].activation, prevZ[i]))]

\* Backward pass of the reference.  orig: the layers at the start of the call;
\* acc: the layers with the updates applied so far.  The delta sent to layer
\* l-1 is built from layer l of orig (fromStart) or of acc (~fromStart).
RECURSIVE RefBackward(_, _, _, _, _, _, _)
RefBackward(orig, acc, lr, fw, l, delta, fromStart) ==
    IF l = 0 THEN acc
    ELSE LET acc2 == [acc EXCEPT ![l] =
                        UpdateLayer(orig[l], lr, delta, fw.activations[l])]
         IN  IF l > 1
             THEN RefBackward(orig, acc2, lr, fw, l - 1,
                              RefNextDelta(IF fromStart THEN orig[l] ELSE acc2[l],
                                           orig[l - 1], delta, fw.zs[l - 1]),
                              fromStart)
             ELSE acc2

RefBackpropagate(ls, lr, input, target, fromStart) ==
    LET fw == ForwardPass(ls, input, Len(ls))
    IN  RefBackward(ls, ls, lr, fw, Len(ls), OutputDelta(ls, fw, target), fromStart)

\* C2: on a network with at least one hidden layer, backpropagate leaves the
\* weights and biases of the reference backpropagation that derives the deltas
\* of every layer from the weights held at the start of the call and only then
\* applies the updates.
C2_DeltasFromPreUpdateWeights ==
    (DirectBackpropagate /\ Len(pre) >= 2) =>
      layers = RefBackpropagate(pre, learningRate, last.input, last.target, TRUE)

\* C3: the delta propagated to neuron i of the previous layer is built from the
\* weight of the connection whose sourceIndex is i (not from list position i),
\* so backpropagate leaves what the by-sourceIndex propagation leaves.
C3_DeltaBySourceIndex ==
    (DirectBackpropagate /\ Len(pre) >= 2 /\ Len(last.input) >= 1) =>
      layers = RefBackpropagate(pre, learningRate, last.input, last.target, FALSE)

\* ---------------------------------------------------------------------- C4
\* every element of layerSizes is an integer
IntegerSizes(elems) == \A k \in 1..Len(elems) : elems[k].twice % 2 = 0

\* some connection of the first layer reads past the end of the input
InputTooShort(ls, input) ==
    \E j \in 1..Len(ls[1]) : \E k \in 1..Len(ls[1][j].connections) :
      ls[1][j].connections[k].index >= Len(input)

\* C4: backpropagate with an input shorter than the first layer's connections
\* fails with an index-range error and changes no weight and no bias (stated
\* for networks built from integer layer sizes and targets that cover the
\* output layer).
C4_ShortInputRejected ==
    (DirectBackpropagate /\ InputTooShort(pre, last.input)
       /\ IntegerSizes(layerSizes)
       /\ Len(last.target) >= Len(pre[Len(pre)])) =>
      (last.err = "range" /\ layers = pre)

\* ---------------------------------------------------------------------- C5
\* C5: Neuron.predict fails with the index-range error exactly when some
\* connection's sourceIndex is >= inputs.length; NeuralNetwork.predict fails
\* with it whenever the input is shorter than layerSizes[0]; no weight or bias
\* changes in either case.
C5_PredictRangeError ==
    /\ \A l \in 1..Len(layers) : \A j \in 1..Len(layers[l]) :
         \A inputs \in InputVecs :
           NeuronPredict(layers[l][j], inputs).err <=>
             (\E k \in 1..Len(layers[l][j].connections) :
                layers[l][j].connections[k].index >= Len(inputs))
    /\ (pc = "idle" /\ last.op = "predict"
          /\ 2 * Len(last.input) < layerSizes[1].twice) =>
         (last.err = "range" /\ layers = pre)

\* ---------------------------------------------------------------------- C6
\* C6: predict is read-only and deterministic: it leaves every layer (weights,
\* biases, activations) as it was, and a second predict with the same input
\* right after it returns what the first call returned.
C6_PredictReadOnly ==
    (pc = "idle" /\ last.op = "predict") =>
      /\ layers = pre
      /\ LET again == NetPredict(layers, last.input)
         IN  /\ again.err <=> (last.err = "range")
             /\ again.out = last.out

\* a successful predict on a network that an earlier operation has changed
C6_Witness ==
    /\ pc = "idle"
    /\ last.op = "predict"
    /\ steps = 2
    /\ last.err = "none"
    /\ Len(last.out) >= 1
    /\ \E l \in 1..Len(layers) : \E j \in 1..Len(layers[l]) :
         layers[l][j].bias \notin RandomWeights

\* ---------------------------------------------------------------------- C7
\* C7: for an input of length >= layerSizes[0], predict succeeds and returns a
\* vector of length exactly layerSizes[last].
C7_PredictOutputLength ==
    (pc = "idle" /\ last.op = "predict"
       /\ 2 * Len(last.input) >= layerSizes[1].twice) =>
      /\ last.err = "none"
      /\ 2 * Len(last.out) = layerSizes[Len(layerSizes)].twice

\* ---------------------------------------------------------------------- C8
\* layerSizes is a sequence of at least 2 positive integers
WellFormedLayerSizes(isArray, elems) ==
    /\ isArray
    /\ Len(elems) >= 2
    /\ \A k \in 1..Len(elems) :
         /\ elems[k].type = "number"
         /\ elems[k].twice > 0
         /\ elems[k].twice % 2 = 0

\* C8: constructing a NeuralNetwork succeeds if and only if layerSizes is a
\* sequence of at least 2 positive integers, and fails with a validation error
\* otherwise.
C8_ConstructionValidates ==
    (last.op = "construct") =>
      /\ (last.err = "none") <=> WellFormedLayerSizes(last.n = 1, last.input)
      /\ last.err \in {"none", "validation"}

\* ---------------------------------------------------------------------- C9
\* C9: after a construction from integer layer sizes and any sequence of
\* predict, backpropagate, train, getLayer, setActivationFunctionForAll and
\* addLayer, layers.length = layerSizes.length - 1 and layer l holds
\* layerSizes[l+1] neurons with layerSizes[l] connections each, one per source
\* index 0..layerSizes[l]-1.
C9_LayersMatchLayerSizes ==
    (pc \in {"idle", "train"} /\ IntegerSizes(layerSizes)) =>
      /\ Len(layers) = Len(layerSizes) - 1
      /\ \A l \in 1..Len(layers) :
           /\ 2 * Len(layers[l]) = layerSizes[l + 1].twice
           /\ \A j \in 1..Len(layers[l]) :
                /\ 2 * Len(layers[l][j].connections) = layerSizes[l].twice
                /\ \A i \in 0..(Len(layers[l][j].connections) - 1) :
                     Cardinality({k \in 1..Len(layers[l][j].connections) :
                                    layers[l][j].connections[k].index = i}) = 1

\* --------------------------------------------------------------------- C10
\* sample indices of epochs passes over n samples, in index order
ExpectedCalls(n, epochs) == [k \in 1..(epochs * n) |-> (k - 1) % n]

\* the layers left by backpropagate calls on samples calls[k..], one after
\* the other, each starting from the layers the previous one left
RECURSIVE OnlineUpdates(_, _, _, _, _, _)
OnlineUpdates(ls, lr, inputs, targets, calls, k) ==
    IF k > Len(calls) THEN ls
    ELSE OnlineUpdates(Backpropagate(ls, lr, inputs[calls[k] + 1],
                                     targets[calls[k] + 1]),
                       lr, inputs, targets, calls, k + 1)

\* C10: train sets learningRate to lr before any update and keeps it; its
\* backpropagate calls are, in this order, samples 0..n-1 of epoch 0, then of
\* epoch 1, ... (epochs * n calls when it returns), each call starting from
\* the weights the previous call left.
C10_TrainInOrder ==
    (last.op = "train") =>
      LET expected == ExpectedCalls(Len(tr.inputs), tr.epochs)
      IN  /\ learningRate = tr.lr
          /\ Len(tr.calls) <= Len(expected)
          /\ \A k \in 1..Len(tr.calls) : tr.calls[k] = expected[k]
          /\ layers = OnlineUpdates(pre, tr.lr, tr.inputs, tr.targets, tr.calls, 1)
          /\ (pc = "idle") => (tr.calls = expected)

\* a finished train of 2 epochs over 2 samples that changed the learning rate
\* and the weights
C10_Witness ==
    /\ pc = "idle"
    /\ last.op = "train"
    /\ tr.epochs = 2
    /\ Len(tr.calls) = 4
    /\ tr.lr = Num(2)
    /\ layers # pre

\* every neuron of the network has the binary step as activation
AllBinary(ls) ==
    \A l \in 1..Len(ls) : \A j \in 1..Len(ls[l]) : ls[l][j].activation = "binary"

\* input covers every source index of the first layer, target every output
WellFormedSample(ls, input, target) ==
    /\ Len(ls) >= 1
    /\ ~InputTooShort(ls, input)
    /\ Len(target) >= Len(ls[Len(ls)])

C12_SetWeightsLengthChecked ==
    ( /\ last.op = "setWeights"
      /\ Len(last.input) #
           Len(pre[last.target[1]][last.target[2]].connections) )
    => /\ last.err = "length"
       /\ \A l \in 1..Len(pre) : \A j \in 1..Len(pre[l]) :
            getWeights(layers[l][j]) = getWeights(pre[l][j])

\* a too short array was refused by a neuron with two connections
C12_Witness ==
    /\ last.op = "setWeights"
    /\ last.err = "length"
    /\ Len(last.input) = 1
    /\ Len(pre[last.target[1]][last.target[2]].connections) = 2

\* the fields loadFromFile requires
MandatoryFields == {"layerSizes", "weights", "biases", "epoch"}

\* C13: loadFromFile reports an invalid model exactly when one of layerSizes,
\* weights, biases, epoch is absent from the file; a file holding all four is
\* not reported invalid, whatever its integer epoch, 0 included.
C13_InvalidExactlyWhenFieldAbsent ==
    last.op = "load"
    => ( loaded.err = "invalid"
         <=> \E f \in MandatoryFields : f \notin loaded.json.has )

\* per-neuron activations of a layer stack
Activations(ls) ==
    [l \in 1..Len(ls) |-> [j \in 1..Len(ls[l]) |-> ls[l][j].activation]]

\* C14: loading the file saveToFile wrote for the current network is
\* accepted and returns a network with the same layerSizes, the same weights
\* and biases, the same activations and the same predict output.
C14_SaveLoadRoundTrip ==
    ( /\ last.op = "load"
      /\ loaded.json = file
      /\ file = saveToFile(layers, layerSizes, epoch) )
    => /\ loaded.err = "none"
       /\ loaded.network.layerSizes = layerSizes
       /\ Len(loaded.network.layers) = Len(layers)
       /\ \A l \in 1..Len(layers) :
            getLayer(loaded.network.layers, l) = getLayer(layers, l)
       /\ Activations(loaded.network.layers) = Activations(layers)
       /\ \A input \in InputVecs :
            NetPredict(loaded.network.layers, input) = NetPredict(layers, input)

\* the file lacks nothing loadFromFile needs besides activation names
LoadableButNames(json) ==
    /\ \A f \in MandatoryFields : f \in json.has
    /\ json.epoch # 0
    /\ loadFromFile([json EXCEPT !.has = @ \ {"activations"}]).err = "none"

\* the saved name of neuron i of layer l, "" when the file has none
SavedName(json, l, i) ==
    IF /\ "activations" \in json.has
       /\ l <= Len(json.activations)
       /\ i <= Len(json.activations[l])
    THEN json.activations[l][i] ELSE ""

\* C15: a saved activation name equal to the name of a catalog entry gives
\* the neuron that entry; a saved name that equals none gives the neuron
\* sigmoid, a warning is emitted, and loading does not fail.
C15_UnknownNameWarnsAndFallsBack ==
    ( last.op = "load" /\ LoadableButNames(loaded.json) )
    => /\ loaded.err = "none"
       /\ \A l \in 1..Len(loaded.network.layers) :
            \A i \in 1..Len(loaded.network.layers[l]) :
              LET name == SavedName(loaded.json, l, i)
                  act == loaded.network.layers[l][i].activation
              IN  /\ \A key \in Catalog :
                        ActivationName(key) = name => act = key
                  /\ ( /\ name # ""
                       /\ \A key \in Catalog : ActivationName(key) # name )
                     => (act = "sigmoid" /\ loaded.warned)

\* what loadFromFile handed to its caller is nothing, or a network whose
\* every layer, weight row and bias is the one of the file
LoadedWhole ==
    IF loaded.err # "none" THEN loaded.network = NoNetwork
    ELSE LET json == loaded.json
             net == loaded.network
         IN  /\ Len(net.layers) = Len(json.layerSizes) - 1
             /\ \A l \in 1..Len(net.layers) :
                  /\ Len(net.layers[l]) = LoopCount(json.layerSizes[l + 1])
                  /\ \A i \in 1..Len(net.layers[l]) :
                       /\ getWeights(net.layers[l][i]) = json.weights[l][i]
                       /\ getBias(net.layers[l][i]) = json.biases[l][i]

\* C16: loadFromFile changes nothing of the instance it is called on, whether
\* it succeeds or fails (field missing, weight row of the wrong length); what
\* the caller receives is a fresh network filled wholly from the file, or
\* nothing.
C16_LoadLeavesInstance ==
    [][ (last'.op = "load" /\ steps' = steps + 1)
        => /\ UNCHANGED <<layerSizes, layers, learningRate, epoch>>
           /\ LoadedWhole' ]_vars

\* a load stopped at a weight row of the wrong length, after the field check
C16_Witness ==
    /\ last.op = "load"
    /\ loaded.err = "length"
    /\ Len(layers) >= 1

\* bias + the sum of weights[i] * input[i] over the first k weights
RECURSIVE PrefixSum(_, _, _)
PrefixSum(p, input, k) ==
    IF k = 0 THEN p.bias
    ELSE Add(PrefixSum(p, input, k - 1), Mul(p.weights[k], input[k]))

\* C17: Perceptron.predict of an input at least as long as the weight vector
\* (strictly longer included) returns activate(bias + the sum over
\* i < weights.length of weights[i] * input[i]): the entries of the input
\* past weights.length are not used.
C17_PredictUsesFirstWeights ==
    ( /\ last.op = "perceptron.predict"
      /\ Len(last.input) >= Len(ppre.weights) )
    => last.out = << PerceptronActivate(ppre,
                        PrefixSum(ppre, last.input, Len(ppre.weights))) >>

\* C18: Perceptron.train computes error = target - predict(input) from the
\* weights before the update, sets weights[i] to weights[i] + learningRate *
\* error * input[i] for every index i of the weight vector and bias to bias +
\* learningRate * error, keeps the number of weights, and changes nothing
\* when the prediction equals the target.
C18_TrainDeltaRule ==
    ( /\ last.op = "perceptron.train"
      /\ Len(last.input) >= Len(ppre.weights) )
    => LET error == Sub(last.target[1], PerceptronPredict(ppre, last.input))
           step == Mul(ppre.learningRate, error)
       IN  /\ Len(perceptron.weights) = Len(ppre.weights)
           /\ \A k \in 1..Len(ppre.weights) :
                k <= Len(perceptron.weights)
                => perceptron.weights[k] =
                     Add(ppre.weights[k], Mul(step, last.input[k]))
           /\ perceptron.bias = Add(ppre.bias, step)
           /\ error = Num(0) => perceptron = ppre

\* clamp(x, -1, 1)
Clamp(x) ==
    IF x.nan THEN NaN
    ELSE IF x.v > 1 THEN Num(1) ELSE IF x.v < -1 THEN Num(-1) ELSE x

\* 1 exactly when x >= 0.5
Step(x) == IF ~x.nan /\ 2 * x.v >= 1 THEN Num(1) ELSE Num(0)

RECURSIVE TrainAll(_, _, _)
TrainAll(p, calls, k) ==
    IF k = 0 THEN p
    ELSE PerceptronTrain(TrainAll(p, calls, k - 1), calls[k].s.x, calls[k].s.y)

\* calls n*e+1 .. n*e+n are the calls of pass e, one per sample of data
PassCoversData(calls, data, e, shuffle) ==
    LET n == Len(data)
    IN  /\ \A k \in 1..n : calls[n * e + k].e = e
        /\ \E f \in Permutations(1..n) :
             /\ \A k \in 1..n : calls[n * e + k].s = data[f[k]]
             /\ ~shuffle => \A k \in 1..n : f[k] = k

\* C20: Perceptron.fit makes exactly epochs passes, each calling train once
\* for every sample of data, in the given order when shuffle is false and in
\* some permutation when it is true; every train call starts from the
\* weights the previous call left.
C20_FitPasses ==
    /\ (pc = "fit" \/ last.op = "fit")
       => perceptron = TrainAll(ppre, fit.calls, Len(fit.calls))
    /\ (pc = "idle" /\ last.op = "fit")
       => /\ Len(fit.calls) = fit.epochs * Len(fit.given)
          /\ \A e \in 0..(fit.epochs - 1) :
               PassCoversData(fit.calls, fit.given, e, fit.shuffle)

\* a shuffled fit of two passes that took the samples in two different orders
C20_Witness ==
    /\ pc = "idle"
    /\ last.op = "fit"
    /\ fit.shuffle
    /\ fit.epochs = 2
    /\ Len(fit.given) >= 2
    /\ Len(fit.calls) = 2 * Len(fit.given)
    /\ fit.calls[1].s # fit.calls[Len(fit.given) + 1].s
    /\ perceptron # ppre

\* C27: the forward pass inside backpropagate computes for every neuron the
\* sum and activation Neuron.predict computes for the same input vector, so
\* the final-layer activations it uses for the output error are
\* NeuralNetwork.predict(input), also when connection lists are sparse or
\* reordered.
C27_ForwardPassIsPredict ==
    ( /\ last.op = "backpropagate"
      /\ Len(pre) >= 1
      /\ ~NetPredict(pre, last.input).err )
    => ForwardPass(pre, last.input, Len(pre)).activations[Len(pre) + 1]
         = NetPredict(pre, last.input).out

\* C30: addLayer(nbNeurons, activation) with nbNeurons >= 1 completes without
\* error and appends exactly one layer of nbNeurons neurons, each with as
\* many connections as the previously last layer has neurons; the layers
\* that existed are unchanged.
C30_AddLayerAppends ==
    ( last.op = "addLayer" /\ last.n >= 1 )
    => /\ last.err = "none"
       /\ Len(layers) = Len(pre) + 1
       /\ SubSeq(layers, 1, Len(pre)) = pre
       /\ Len(layers[Len(layers)]) = last.n
       /\ \A j \in 1..last.n :
            Len(layers[Len(layers)][j].connections) = Len(pre[Len(pre)])

\* the points where the slope of f changes
Breakpoints(name) == IF name = "linearBounded" THEN {-1, 1} ELSE {0}

\* df(x) is the centered difference (f(x + h) - f(x - h)) / (2h); the two
\* sides are integers, so any tolerance below 1/200 is equality
MatchesCenteredDifference ==
    2 * last.n * last.out[3] = last.out[1] - last.out[2]

AllCorrect(p, table) ==
    \A k \in 1..Len(table) : PerceptronPredict(p, table[k].x) = table[k].y

AndLearned == AllCorrect(perceptron, AndTable)

\* C21: a 2-input perceptron with the threshold enabled, whatever its first
\* weights and bias, trained by fit on the AND table in any order of the
\* samples in each pass, eventually classifies all four samples correctly
\* for good, and training from such a state changes no weight and not the
\* bias.
C21_AndConverges ==
    /\ <>[]AndLearned
    /\ [][AndLearned => perceptron' = perceptron]_vars

\* AND is learned by a perceptron that did not know it when it was built
C21_Witness ==
    /\ AndLearned
    /\ pc = "idle"
    /\ last.op = "fit"
    /\ perceptron.weights = <<Num(1), Num(1)>>

\* C22: in every state a 2-input perceptron with the threshold enabled
\* reaches by train and fit on the XOR table, predict misclassifies at least
\* one of the four XOR samples.
C22_XorNeverLearned ==
    pc # "new" => ~AllCorrect(perceptron, XorTable)

\* after at least one pass of fit, three of the four XOR samples are right
C22_Witness ==
    /\ pc = "fit"
    /\ fit.e >= 1
    /\ Cardinality({ k \in 1..Len(XorTable) :
                       PerceptronPredict(perceptron, XorTable[k].x)
                         = XorTable[k].y }) = 3

\* a number of [-1, 1]
InUnitInterval(w) == w \in [nan : {FALSE}, v : -1..1]

\* --------------------------------------------------------------------- C23
\* C23: Perceptron.reset() replaces every weight and the bias by a value of
\* [-1, 1], keeps the number of weights, and leaves learningRate,
\* disableThreshold and activationThreshold as they were.
C23_ResetFrame ==
    (last.op = "unit.reset" /\ upre.kind = "Perceptron") =>
        /\ Len(unit.weights) = Len(upre.weights)
        /\ \A k \in 1..Len(unit.weights) : InUnitInterval(unit.weights[k])
        /\ InUnitInterval(unit.bias)
        /\ unit.learningRate = upre.learningRate
        /\ unit.disableThreshold = upre.disableThreshold
        /\ unit.activationThreshold = upre.activationThreshold
        /\ unit.kind = upre.kind

\* a perceptron of two weights whose threshold was set to 2 is reset to
\* other weights
C23_Witness ==
    /\ last.op = "unit.reset"
    /\ upre.kind = "Perceptron"
    /\ upre.activationThreshold = Num(2)
    /\ Len(unit.weights) = 2
    /\ unit.weights # upre.weights

\* --------------------------------------------------------------------- C24
\* the sum of inputs[index] * weight over the first k connections
RECURSIVE ConnectionSum(_, _, _)
ConnectionSum(conns, inputs, k) ==
    IF k = 0 THEN Num(0)
    ELSE Add(ConnectionSum(conns, inputs, k - 1),
             Mul(At(inputs, conns[k].index), conns[k].weight))

IndicesInRange(conns, inputs) ==
    \A k \in 1..Len(conns) : conns[k].index < Len(inputs)

HasDuplicateIndex(conns) ==
    \E j, k \in 1..Len(conns) : j # k /\ conns[j].index = conns[k].index

\* C24: Neuron.predict(inputs), every index being in range, is
\* activation.f(bias + sum over the connection list of inputs[index] *
\* weight), an index counting once per connection that names it; and
\* addConnection(index, weight) appends exactly one connection, without
\* removing or merging a connection of the same index, so that getWeights()
\* is one longer.
C24_PredictSumsConnections ==
    /\ (last.op = "unit.predict" /\ upre.kind = "Neuron"
        /\ IndicesInRange(upre.connections, last.input)) =>
           /\ last.err = "none"
           /\ last.out[1] =
                ActF(upre.activation,
                     Add(upre.bias,
                         ConnectionSum(upre.connections, last.input,
                                       Len(upre.connections))))
    /\ last.op = "unit.addConnection" =>
           LET old == Len(upre.connections)
           IN  /\ Len(unit.connections) = old + 1
               /\ SubSeq(unit.connections, 1, old) = upre.connections
               /\ unit.connections[old + 1].index = last.n
               /\ IF last.input[1] = Null
                  THEN InUnitInterval(unit.connections[old + 1].weight)
                  ELSE unit.connections[old + 1].weight = last.input[1]
               /\ Len(getWeights(unit)) = Len(getWeights(upre)) + 1

\* predict on a neuron with two connections to the same input, both counted
C24_Witness ==
    /\ last.op = "unit.predict"
    /\ last.err = "none"
    /\ upre.kind = "Neuron"
    /\ HasDuplicateIndex(upre.connections)
    /\ \E j, k \in 1..Len(upre.connections) :
         /\ j # k
         /\ upre.connections[j] = upre.connections[k]
         /\ last.input[upre.connections[j].index + 1] = Num(1)
         /\ upre.connections[j].weight = Num(1)
         /\ Len(upre.connections) = 2
         /\ last.out[1] = Add(upre.bias, Num(2))

\* --------------------------------------------------------------------- C25
\* C25: right after new Neuron(...) every connection has a numeric weight:
\* without connections there are exactly inputSize of them, of indices
\* 0..inputSize-1 and weights in [-1, 1]; with connections each keeps the
\* weight it was given, and one given without a weight has one of [-1, 1].
C25_ConnectionsNumeric ==
    (last.op = "unit.construct" /\ unit.kind = "Neuron") =>
        /\ \A k \in 1..Len(unit.connections) :
             ~unit.connections[k].weight.nan
        /\ IF last.input = <<>>
           THEN /\ Len(unit.connections) = last.n
                /\ \A k \in 1..Len(unit.connections) :
                     /\ unit.connections[k].index = k - 1
                     /\ InUnitInterval(unit.connections[k].weight)
           ELSE /\ Len(unit.connections) = Len(last.input)
                /\ \A k \in 1..Len(unit.connections) :
                     /\ unit.connections[k].index = last.input[k].index
                     /\ IF last.input[k].weight = NoWeight
                        THEN InUnitInterval(unit.connections[k].weight)
                        ELSE unit.connections[k].weight =
                                 last.input[k].weight

\* --------------------------------------------------------------------- C28
\* C28: on a Neuron the inherited train and reset change no connection
\* weight (getWeights() returns what it returned before), and they write the
\* bias Neuron.predict adds: train adds learningRate * (target - prediction)
\* to it, reset draws it from [-1, 1]; predict afterwards is predict of the
\* old connections with the new bias.
C28_InheritedKeepConnections ==
    (upre.kind = "Neuron" /\ last.op \in {"unit.train", "unit.reset"}) =>
        /\ getWeights(unit) = getWeights(upre)
        /\ unit.connections = upre.connections
        /\ (last.op = "unit.train" /\ last.err = "none") =>
              unit.bias =
                Add(upre.bias,
                    Mul(upre.learningRate,
                        Sub(last.target[1],
                            NeuronPredict(upre, last.input).val)))
        /\ (last.op = "unit.train" /\ last.err # "none") => unit = upre
        /\ last.op = "unit.reset" => InUnitInterval(unit.bias)
        /\ \A x \in UnitInputs :
             NeuronPredict(unit, x) =
                 NeuronPredict([upre EXCEPT !.bias = unit.bias], x)

\* a train call on a neuron that moved its bias and changed what it predicts
C28_Witness ==
    /\ last.op = "unit.train"
    /\ upre.kind = "Neuron"
    /\ ~unit.bias.nan
    /\ unit.bias # upre.bias
    /\ NeuronPredict(unit, last.input) # NeuronPredict(upre, last.input)

\* --------------------------------------------------------------------- C29
C29_Step ==
    /\ (last.op = "unit.setWeights" /\ last.err = "none"
        /\ last'.op = "unit.getWeights") => last'.out = last.input
    /\ last'.op = "scribble" =>
           /\ unit' = unit
           /\ UnitGetWeights(unit').val = UnitGetWeights(unit).val
           /\ \A x \in UnitInputs : UnitPredict(unit', x) = UnitPredict(unit, x)

====
